---- MODULE Spec2Model ----
(***************************************************************************)
(* Swing/mitigation trend-following strategy (src/src/strategy.py) driven  *)
(* by the monthly backtest loop (src/backtest_all_months.py) with the      *)
(* parameters of src/config.py.                                            *)
(*                                                                         *)
(* Units.  Prices are integers in pips (EURUSD: 1 pip = 0.0001), lot sizes *)
(* are integers in hundredths of a lot (round(x, 2) keeps two decimals),   *)
(* money is an integer number of cents.  A timestamp is a record           *)
(* [day, hour, minute]; the calendar date is the field day.                *)
(* Python's None is the value None below (prices and indices are >= 0).    *)
(* Bar indices are 0-based as in the source: Bar(d, i) is df.iloc[i].      *)
(***************************************************************************)
EXTENDS Integers, Sequences, FiniteSets, TLC

None == -1

\* ---------------------------------------------------------------- config.py
TRADING_START == 12
TRADING_END == 19
ANALYSIS_START == 11
ANALYSIS_END == 12
SWING_LOOKBACK == 2
INITIAL_BALANCE == 10000
NEWS_BEFORE_MINUTES == 30
NEWS_AFTER_MINUTES == 30
\* RISK_PER_TRADE = 0.002 and MAX_STOP_LOSS_PERCENT = 0.035, in thousandths
RISK_PER_TRADE_MILLI == 2
MAX_STOP_LOSS_MILLI == 35
\* SPREAD_PIPS = 1.5, in tenths of a pip
SPREAD_TENTHS == 15
\* MAX_OPEN_POSITIONS = None: no cap
MAX_OPEN_POSITIONS == None
ENABLE_NEWS_FILTER == TRUE

\* ------------------------------------------------------------- strategy.py
\* literals of strategy.py
COUNTER_SCAN == 100
ADX_PERIOD == 14
CHOPPY_ADX == 30
ADX_DEFAULT == 50
\* the default of calculate_atr, 0.0003, in pips
ATR_DEFAULT_PIPS == 3
VOL_LOOKBACK == 4
VOL_WINDOW == 20
VOL_MIN_HISTORY == 14
CUTOFF_HOUR == 19
CUTOFF_MINUTE == 55
PIP_VALUE_PER_LOT == 10
MIN_LOT == 1
TP_FIRST == 25
TP_SECOND == 20
TP_THIRD == 15

\* ------------------------------------------------------------------ helpers
Abs(x) == IF x < 0 THEN -x ELSE x

Max2(a, b) == IF a >= b THEN a ELSE b

Min2(a, b) == IF a <= b THEN a ELSE b

\* df.iloc[i] for a 0-based index i >= 0
Bar(d, i) == d[i + 1]

RECURSIVE SumTo(_, _, _)
\* sum of f[k] for k in lo..hi
SumTo(f, lo, hi) == IF lo > hi THEN 0 ELSE f[lo] + SumTo(f, lo + 1, hi)

\* Python round(n/d, 0) for d > 0 on the exact quotient: round half to even
RoundHalfEven(n, d) ==
    LET q == n \div d
        r == n % d
    IN  IF 2 * r < d THEN q
        ELSE IF 2 * r > d THEN q + 1
        ELSE IF q % 2 = 0 THEN q ELSE q + 1

\* timestamp in minutes, for differences and ordering
Minutes(t) == (t.day * 24 + t.hour) * 60 + t.minute

is_bullish_candle(row) == row.close > row.open

\* variant of is_bearish_candle that counts a doji as bearish
is_bearish_candle_OrDoji(row) == row.close <= row.open

is_bearish_candle(row) == row.close < row.open

\* ------------------------------------------------- swing detector (pure)
\* variant of is_swing_high that accepts a high equal to a neighbour's
is_swing_high_Ties(d, idx) ==
    IF idx < SWING_LOOKBACK \/ idx >= Len(d) - SWING_LOOKBACK THEN FALSE
    ELSE LET center_high == Bar(d, idx).high
         IN  /\ \A i \in (idx - SWING_LOOKBACK)..(idx - 1) : ~(Bar(d, i).high > center_high)
             /\ \A i \in (idx + 1)..(idx + SWING_LOOKBACK) : ~(Bar(d, i).high > center_high)

\* is_swing_high(df, idx): strict maximum of the highs in [idx-2, idx+2]
is_swing_high(d, idx) ==
    IF idx < SWING_LOOKBACK \/ idx >= Len(d) - SWING_LOOKBACK THEN FALSE
    ELSE LET center_high == Bar(d, idx).high
         IN  /\ \A i \in (idx - SWING_LOOKBACK)..(idx - 1) : ~(Bar(d, i).high >= center_high)
             /\ \A i \in (idx + 1)..(idx + SWING_LOOKBACK) : ~(Bar(d, i).high >= center_high)

\* is_swing_low(df, idx): strict minimum of the lows in [idx-2, idx+2]
is_swing_low(d, idx) ==
    IF idx < SWING_LOOKBACK \/ idx >= Len(d) - SWING_LOOKBACK THEN FALSE
    ELSE LET center_low == Bar(d, idx).low
         IN  /\ \A i \in (idx - SWING_LOOKBACK)..(idx - 1) : ~(Bar(d, i).low <= center_low)
             /\ \A i \in (idx + 1)..(idx + SWING_LOOKBACK) : ~(Bar(d, i).low <= center_low)

RECURSIVE ScanBack(_, _, _, _)
\* the loop of find_last_counter_candle_before_index: i runs down from
\* before_idx - 1 to search_start and stops at the first candle of the colour
ScanBack(d, i, search_start, candle_type) ==
    IF i < search_start THEN None
    ELSE IF candle_type = "red" /\ is_bearish_candle(Bar(d, i)) THEN i
    ELSE IF candle_type = "green" /\ is_bullish_candle(Bar(d, i)) THEN i
    ELSE ScanBack(d, i - 1, search_start, candle_type)

\* index of the last candle of the colour before before_idx, or None
find_last_counter_candle_before_index(d, before_idx, candle_type) ==
    ScanBack(d, before_idx - 1, Max2(0, before_idx - COUNTER_SCAN), candle_type)

\* --------------------------------------------------------- indicators (pure)
\* true range of bar k against the close of bar k-1
TrueRange(d, k) ==
    LET h == Bar(d, k).high
        l == Bar(d, k).low
        pc == Bar(d, k - 1).close
    IN  Max2(h - l, Max2(Abs(h - pc), Abs(l - pc)))

PlusDM(d, k) ==
    LET up_move == Bar(d, k).high - Bar(d, k - 1).high
        down_move == Bar(d, k - 1).low - Bar(d, k).low
    IN  IF up_move > down_move /\ up_move > 0 THEN up_move ELSE 0

MinusDM(d, k) ==
    LET up_move == Bar(d, k).high - Bar(d, k - 1).high
        down_move == Bar(d, k - 1).low - Bar(d, k).low
    IN  IF down_move > up_move /\ down_move > 0 THEN down_move ELSE 0

\* variant of calculate_adx that computes from one bar earlier
calculate_adx_ShortGuard(d, current_idx) ==
    IF current_idx < ADX_PERIOD THEN ADX_DEFAULT
    ELSE LET first == current_idx - ADX_PERIOD + 1
             tr == [k \in first..current_idx |-> TrueRange(d, k)]
             pdm == [k \in first..current_idx |-> PlusDM(d, k)]
             mdm == [k \in first..current_idx |-> MinusDM(d, k)]
             atr_sum == SumTo(tr, first, current_idx)
             plus_sum == SumTo(pdm, first, current_idx)
             minus_sum == SumTo(mdm, first, current_idx)
         IN  IF atr_sum = 0 THEN 0
             ELSE IF plus_sum + minus_sum = 0 THEN 0
             ELSE (100 * Abs(plus_sum - minus_sum)) \div (plus_sum + minus_sum)

\* calculate_adx(df, current_idx, period=14).  The source returns the real
\* number dx = 100*|+DI - -DI| / (+DI + -DI); the divisions by period and by
\* atr cancel, and the model returns the floor of dx, which compares with an
\* integer threshold t exactly as dx does (dx < t iff floor(dx) < t).
calculate_adx(d, current_idx) ==
    IF current_idx < ADX_PERIOD + 1 THEN ADX_DEFAULT
    ELSE LET first == current_idx - ADX_PERIOD + 1
             tr == [k \in first..current_idx |-> TrueRange(d, k)]
             pdm == [k \in first..current_idx |-> PlusDM(d, k)]
             mdm == [k \in first..current_idx |-> MinusDM(d, k)]
             atr_sum == SumTo(tr, first, current_idx)
             plus_sum == SumTo(pdm, first, current_idx)
             minus_sum == SumTo(mdm, first, current_idx)
         IN  IF atr_sum = 0 THEN 0
             ELSE IF plus_sum + minus_sum = 0 THEN 0
             ELSE (100 * Abs(plus_sum - minus_sum)) \div (plus_sum + minus_sum)

\* calculate_atr(df, current_idx, period=14), in fourteenths of a pip: the
\* source returns sum(tr[-period:]) / period over the true ranges of the rows
\* current_idx - 13 .. current_idx, and the model returns that sum
calculate_atr(d, current_idx) ==
    IF current_idx < ADX_PERIOD THEN ATR_DEFAULT_PIPS * ADX_PERIOD
    ELSE LET first == current_idx - ADX_PERIOD + 1
             tr == [k \in first..current_idx |-> TrueRange(d, k)]
         IN  SumTo(tr, first, current_idx)

\* is_choppy_market(current_time, df, current_idx)
\* variant of is_choppy_market that never reports a choppy market
is_choppy_market_Never(d, current_idx) == FALSE

is_choppy_market(d, current_idx) == calculate_adx(d, current_idx) < CHOPPY_ADX

\* df.iloc[i]: a negative i counts from the end of the data file, whose last
\* rows are tail
Iloc(d, tail, i) == IF i >= 0 THEN Bar(d, i) ELSE tail[Len(tail) + 1 + i]

\* is_high_volatility_recent(df, current_idx, lookback=4);
\* candle_range > avg_range * 2 with avg_range = atr_sum / 20
is_high_volatility_recent(d, tail, current_idx) ==
    IF current_idx < VOL_LOOKBACK + VOL_MIN_HISTORY THEN FALSE
    ELSE LET rng == [i \in (current_idx - VOL_WINDOW)..(current_idx - 1) |->
                        Iloc(d, tail, i).high - Iloc(d, tail, i).low]
             atr_sum == SumTo(rng, current_idx - VOL_WINDOW, current_idx - 1)
         IN  \E i \in (current_idx - VOL_LOOKBACK)..(current_idx - 1) :
                 rng[i] * VOL_WINDOW > atr_sum * 2

\* ------------------------------------------------------- news_filter.py
NoEvent == "None"

\* 'FOMC' in event_name, over the event names of the calendars below
HasFOMC(name) == name \in {"FOMC", "FOMC Meeting Minutes"}

\* 'NFP' in event_name or 'Non-Farm Employment Change' in event_name
HasNFP(name) ==
    name \in {"NFP", "Non-Farm Employment Change", "ADP Non-Farm Employment Change"}

\* variant of DayBlackout without the whole-day block
DayBlackout_Never(events, k, current_date) == [blackout |-> FALSE, event |-> NoEvent]

RECURSIVE DayBlackout(_, _, _)
\* first loop of is_news_time: an FOMC or NFP event on the date blocks the day
DayBlackout(events, k, current_date) ==
    IF k > Len(events) THEN [blackout |-> FALSE, event |-> NoEvent]
    ELSE IF HasFOMC(events[k].name) /\ events[k].time.day = current_date
         THEN [blackout |-> TRUE, event |-> "FOMC_DAY_" \o events[k].name]
    ELSE IF HasNFP(events[k].name) /\ events[k].time.day = current_date
         THEN [blackout |-> TRUE, event |-> "NFP_DAY_" \o events[k].name]
    ELSE DayBlackout(events, k + 1, current_date)

RECURSIVE BufferBlackout(_, _, _, _, _)
\* second loop of is_news_time: -buffer_before <= time_diff <= buffer_after
BufferBlackout(events, k, timestamp, buffer_before, buffer_after) ==
    IF k > Len(events) THEN [blackout |-> FALSE, event |-> NoEvent]
    ELSE LET time_diff == Minutes(timestamp) - Minutes(events[k].time)
         IN  IF -buffer_before <= time_diff /\ time_diff <= buffer_after
             THEN [blackout |-> TRUE, event |-> events[k].name]
             ELSE BufferBlackout(events, k + 1, timestamp, buffer_before, buffer_after)

\* NewsFilter.is_news_time(timestamp) -> (is_blackout, event_name)
is_news_time(events, timestamp) ==
    LET day_block == DayBlackout(events, 1, timestamp.day)
    IN  IF day_block.blackout THEN day_block
        ELSE BufferBlackout(events, 1, timestamp, NEWS_BEFORE_MINUTES, NEWS_AFTER_MINUTES)

\* ----------------------------------------------------- time windows (pure)
is_analysis_period(timestamp) ==
    ANALYSIS_START <= timestamp.hour /\ timestamp.hour < ANALYSIS_END

\* variant of should_close_all_positions that starts one hour late
should_close_all_positions_Late(timestamp) == timestamp.hour > TRADING_END

should_close_all_positions(timestamp) == timestamp.hour >= TRADING_END

\* variant of InEngineHours that includes the hour the trading window ends at
InEngineHours_ThroughEndHour(timestamp) ==
    ANALYSIS_START <= timestamp.hour /\ timestamp.hour <= TRADING_END

\* the guard of update_swing_levels and check_bias_change
InEngineHours(timestamp) ==
    ANALYSIS_START <= timestamp.hour /\ timestamp.hour < TRADING_END

\* variant of is_trading_hours without the news test
is_trading_hours_NoNews(events, d, tail, current_idx) ==
    LET timestamp == Bar(d, current_idx).time
    IN  IF timestamp.hour = CUTOFF_HOUR /\ timestamp.minute >= CUTOFF_MINUTE THEN FALSE
        ELSE IF ~(TRADING_START <= timestamp.hour /\ timestamp.hour < TRADING_END) THEN FALSE
        ELSE IF is_choppy_market(d, current_idx) THEN FALSE
        ELSE IF is_high_volatility_recent(d, tail, current_idx) THEN FALSE
        ELSE TRUE

\* is_trading_hours(timestamp, df, current_idx) with the news filter of the
\* backtest (strategy.enable_news_filter = True, strategy.news_filter set)
is_trading_hours(events, d, tail, current_idx) ==
    LET timestamp == Bar(d, current_idx).time
    IN  IF timestamp.hour = CUTOFF_HOUR /\ timestamp.minute >= CUTOFF_MINUTE THEN FALSE
        ELSE IF ~(TRADING_START <= timestamp.hour /\ timestamp.hour < TRADING_END) THEN FALSE
        ELSE IF ENABLE_NEWS_FILTER /\ is_news_time(events, timestamp).blackout THEN FALSE
        ELSE IF is_choppy_market(d, current_idx) THEN FALSE
        ELSE IF is_high_volatility_recent(d, tail, current_idx) THEN FALSE
        ELSE TRUE

\* ------------------------------------------------- sizing and targets (pure)
\* get_tp_pips_for_entry_candle() as a function of entry_candle_count
get_tp_pips_for_entry_candle(count) ==
    IF count = 0 THEN TP_FIRST
    ELSE IF count = 1 THEN TP_SECOND
    ELSE IF count = 2 THEN TP_THIRD
    ELSE TP_THIRD

\* variant of SizeAtRisk that sizes with the configured risk whatever the
\* risk_per_trade the strategy was constructed with
SizeAtRisk_ConfiguredRisk(risk_milli, bal, entry_price, sl_price) ==
    IF sl_price = None THEN 0
    ELSE LET sl_pips == Abs(entry_price - sl_price)
         IN  IF sl_pips = 0 THEN 0
             ELSE LET per_lot == 1000 * sl_pips * PIP_VALUE_PER_LOT
                      risk_lot == RoundHalfEven(bal * RISK_PER_TRADE_MILLI, per_lot)
                      \* potential_loss > max_sl_amount, both in cents * 1000
                      over_cap == risk_lot * per_lot > bal * MAX_STOP_LOSS_MILLI
                      lot_size == IF over_cap
                                  THEN RoundHalfEven(bal * MAX_STOP_LOSS_MILLI, per_lot)
                                  ELSE risk_lot
                  IN  IF lot_size < MIN_LOT THEN MIN_LOT ELSE lot_size

\* variant of SizeAtRisk without the minimum lot size of lines 774-775
SizeAtRisk_NoFloor(risk_milli, bal, entry_price, sl_price) ==
    IF sl_price = None THEN 0
    ELSE LET sl_pips == Abs(entry_price - sl_price)
         IN  IF sl_pips = 0 THEN 0
             ELSE LET per_lot == 1000 * sl_pips * PIP_VALUE_PER_LOT
                      risk_lot == RoundHalfEven(bal * risk_milli, per_lot)
                      over_cap == risk_lot * per_lot > bal * MAX_STOP_LOSS_MILLI
                  IN  IF over_cap
                      THEN RoundHalfEven(bal * MAX_STOP_LOSS_MILLI, per_lot)
                      ELSE risk_lot

\* calculate_position_size(balance, entry_price, "EURUSD") for the stop
\* sl_price = get_sl_price(); forex branch, pip_size = 0.0001.
\* bal is in cents, prices in pips, the result in hundredths of a lot:
\*   100*lot = 100 * (bal/100 * risk) / (sl_pips * pip_value_per_lot)
\* round(x, 2) is taken on the exact quotient.
\* The risk fraction self.risk_per_trade is risk_milli thousandths.
SizeAtRisk(risk_milli, bal, entry_price, sl_price) ==
    IF sl_price = None THEN 0
    ELSE LET sl_pips == Abs(entry_price - sl_price)
         IN  IF sl_pips = 0 THEN 0
             ELSE LET per_lot == 1000 * sl_pips * PIP_VALUE_PER_LOT
                      risk_lot == RoundHalfEven(bal * risk_milli, per_lot)
                      \* potential_loss > max_sl_amount, both in cents * 1000
                      over_cap == risk_lot * per_lot > bal * MAX_STOP_LOSS_MILLI
                      lot_size == IF over_cap
                                  THEN RoundHalfEven(bal * MAX_STOP_LOSS_MILLI, per_lot)
                                  ELSE risk_lot
                  IN  IF lot_size < MIN_LOT THEN MIN_LOT ELSE lot_size

\* potential_loss > max_sl_amount (line 768) for that risk_per_trade
CapHit(risk_milli, bal, entry_price, sl_price) ==
    LET per_lot == 1000 * Abs(entry_price - sl_price) * PIP_VALUE_PER_LOT
    IN  RoundHalfEven(bal * risk_milli, per_lot) * per_lot > bal * MAX_STOP_LOSS_MILLI

\* calculate_position_size of the strategy the backtest constructs
\* (risk_per_trade=RISK_PER_TRADE)
calculate_position_size(bal, entry_price, sl_price) ==
    SizeAtRisk(RISK_PER_TRADE_MILLI, bal, entry_price, sl_price)

\* ------------------------------------------------------------------ state
VARIABLES
    feed,                   \* which family of data files df is drawn from
    max_open_positions,     \* the value of config.MAX_OPEN_POSITIONS in force
    df,                     \* rows of the data file the loop has reached
    df_tail,                \* the last two rows of the data file (df.iloc[-2:])
    pc,                     \* position of the loop body within the current bar
    news_events,            \* NewsFilter.news_events
    bias, mitigation_high, mitigation_low, mitigation_candle_idx,
    reference_high, reference_low, reference_high_idx, reference_low_idx,
    pending_swing_highs, pending_swing_lows,
    mitigation_tested, ready_to_trade, entry_candle_count,
    last_bias_change_idx, last_analysis_day,
    balance, open_positions, closed_positions,   \* Backtester
    reset_returned,         \* value check_daily_reset returned on this bar
    bias_returned,          \* value check_bias_change returned on this bar
    entries_since_flip      \* history: positions opened since the last bias flip
                            \* (None while the day has seen no flip)

engine == <<bias, mitigation_high, mitigation_low, mitigation_candle_idx,
            reference_high, reference_low, reference_high_idx, reference_low_idx,
            pending_swing_highs, pending_swing_lows,
            mitigation_tested, ready_to_trade, entry_candle_count,
            last_bias_change_idx>>

account == <<balance, open_positions, closed_positions>>

vars == <<feed, max_open_positions, df, df_tail, pc, news_events, engine, last_analysis_day, account,
          reset_returned, bias_returned, entries_since_flip>>

\* the loop variable i and candle = df.iloc[i]
cur_idx == Len(df) - 1

candle == Bar(df, cur_idx)

\* ------------------------------------------------------------ engine steps
\* max(pending, key=price) and min(pending, key=price): the first extreme
FirstMax(pending) ==
    pending[CHOOSE k \in 1..Len(pending) :
                /\ \A j \in 1..Len(pending) : pending[j][1] <= pending[k][1]
                /\ \A j \in 1..(k - 1) : pending[j][1] < pending[k][1]]

FirstMin(pending) ==
    pending[CHOOSE k \in 1..Len(pending) :
                /\ \A j \in 1..Len(pending) : pending[j][1] >= pending[k][1]
                /\ \A j \in 1..(k - 1) : pending[j][1] > pending[k][1]]

\* "add to pending if not already there"
AddPending(pending, price, idx) ==
    IF \E k \in 1..Len(pending) : pending[k][2] = idx THEN pending
    ELSE Append(pending, <<price, idx>>)

\* the mitigation zone as a record
Zone == [high |-> mitigation_high, low |-> mitigation_low, idx |-> mitigation_candle_idx]

\* variant of update_mitigation_for_new_high that scans back to the first row
update_mitigation_for_new_high_WholeFile(d, high_idx, zone) ==
    LET last_red_idx == ScanBack(d, high_idx, 0, "red")
    IN  IF last_red_idx # None
        THEN [high |-> Bar(d, last_red_idx).high, low |-> Bar(d, last_red_idx).low,
              idx |-> last_red_idx]
        ELSE zone

\* update_mitigation_for_new_high(df, high_idx): the zone it leaves
update_mitigation_for_new_high(d, high_idx, zone) ==
    LET last_red_idx == find_last_counter_candle_before_index(d, high_idx + 1, "red")
    IN  IF last_red_idx # None
        THEN [high |-> Bar(d, last_red_idx).high, low |-> Bar(d, last_red_idx).low,
              idx |-> last_red_idx]
        ELSE zone

\* update_mitigation_for_new_low(df, low_idx): the zone it leaves
update_mitigation_for_new_low(d, low_idx, zone) ==
    LET last_green_idx == find_last_counter_candle_before_index(d, low_idx + 1, "green")
    IN  IF last_green_idx # None
        THEN [high |-> Bar(d, last_green_idx).high, low |-> Bar(d, last_green_idx).low,
              idx |-> last_green_idx]
        ELSE zone

\* update_swing_levels, step 1: initialise an unset reference from the pending
\* swings; each value is <<price, index>>
InitRefHigh ==
    IF reference_high = None /\ pending_swing_highs # <<>>
    THEN FirstMax(pending_swing_highs)
    ELSE <<reference_high, reference_high_idx>>

InitRefLow ==
    IF reference_low = None /\ pending_swing_lows # <<>>
    THEN FirstMin(pending_swing_lows)
    ELSE <<reference_low, reference_low_idx>>

\* step 2: the swing confirmed by this bar, swing_lookback bars back
\* variant of DetectedHighs that starts detecting one bar later
DetectedHighs_LateStart ==
    IF cur_idx >= SWING_LOOKBACK + 3 /\ is_swing_high(df, cur_idx - SWING_LOOKBACK)
    THEN AddPending(pending_swing_highs, Bar(df, cur_idx - SWING_LOOKBACK).high,
                    cur_idx - SWING_LOOKBACK)
    ELSE pending_swing_highs

DetectedHighs ==
    IF cur_idx >= SWING_LOOKBACK + 2 /\ is_swing_high(df, cur_idx - SWING_LOOKBACK)
    THEN AddPending(pending_swing_highs, Bar(df, cur_idx - SWING_LOOKBACK).high,
                    cur_idx - SWING_LOOKBACK)
    ELSE pending_swing_highs

DetectedLows ==
    IF cur_idx >= SWING_LOOKBACK + 2 /\ is_swing_low(df, cur_idx - SWING_LOOKBACK)
    THEN AddPending(pending_swing_lows, Bar(df, cur_idx - SWING_LOOKBACK).low,
                    cur_idx - SWING_LOOKBACK)
    ELSE pending_swing_lows

\* step 3: pending highs are promoted when the bar breaks the reference low
\* variant of BreaksRefLow that also promotes on a low equal to the reference
BreaksRefLow_OnEqual ==
    /\ InitRefLow[1] # None
    /\ DetectedHighs # <<>>
    /\ candle.low <= InitRefLow[1]

BreaksRefLow ==
    /\ InitRefLow[1] # None
    /\ DetectedHighs # <<>>
    /\ candle.low < InitRefLow[1]

PromotedRefHigh == IF BreaksRefLow THEN FirstMax(DetectedHighs) ELSE InitRefHigh

ZoneAfterHigh ==
    IF BreaksRefLow /\ bias = "LONG"
    THEN update_mitigation_for_new_high(df, PromotedRefHigh[2], Zone)
    ELSE Zone

\* step 4: pending lows are promoted when the bar breaks the reference high
\* (the reference high as step 3 left it)
BreaksRefHigh ==
    /\ PromotedRefHigh[1] # None
    /\ DetectedLows # <<>>
    /\ candle.high > PromotedRefHigh[1]

PromotedRefLow == IF BreaksRefHigh THEN FirstMin(DetectedLows) ELSE InitRefLow

ZoneAfterLow ==
    IF BreaksRefHigh /\ bias = "SHORT"
    THEN update_mitigation_for_new_low(df, PromotedRefLow[2], ZoneAfterHigh)
    ELSE ZoneAfterHigh

\* variant of FlipZone whose scan starts at the flipping bar itself
FlipZone_FromFlipBar(d, current_idx, candle_type) ==
    LET last_idx == find_last_counter_candle_before_index(d, current_idx + 1, candle_type)
    IN  IF last_idx # None
        THEN [high |-> Bar(d, last_idx).high, low |-> Bar(d, last_idx).low, idx |-> last_idx]
        ELSE [high |-> Bar(d, current_idx).high, low |-> Bar(d, current_idx).low,
              idx |-> current_idx]

\* the zone check_bias_change sets on a flip at bar current_idx: the last
\* candle of the colour before the flipping bar, else the flipping bar itself
FlipZone(d, current_idx, candle_type) ==
    LET last_idx == find_last_counter_candle_before_index(d, current_idx, candle_type)
    IN  IF last_idx # None
        THEN [high |-> Bar(d, last_idx).high, low |-> Bar(d, last_idx).low, idx |-> last_idx]
        ELSE [high |-> Bar(d, current_idx).high, low |-> Bar(d, current_idx).low,
              idx |-> current_idx]

\* variant of FlipsToShort that also flips on a close equal to the boundary
FlipsToShort_OnEqual ==
    /\ mitigation_high # None /\ mitigation_low # None
    /\ InEngineHours(candle.time)
    /\ bias = "LONG"
    /\ candle.close <= mitigation_low

\* check_bias_change: the two break tests, after the early returns
FlipsToShort ==
    /\ mitigation_high # None /\ mitigation_low # None
    /\ InEngineHours(candle.time)
    /\ bias = "LONG"
    /\ candle.close < mitigation_low

FlipsToLong ==
    /\ mitigation_high # None /\ mitigation_low # None
    /\ InEngineHours(candle.time)
    /\ bias = "SHORT"
    /\ candle.close > mitigation_high

\* variant of MitigationTestedAfter that recomputes the test on every bar
MitigationTestedAfter_Recomputed ==
    IF mitigation_high = None \/ mitigation_low = None THEN mitigation_tested
    ELSE IF bias = "LONG" THEN candle.low <= mitigation_high
    ELSE IF bias = "SHORT" THEN candle.high >= mitigation_low
    ELSE mitigation_tested

\* check_mitigation_test(candle): the value it leaves in mitigation_tested
MitigationTestedAfter ==
    IF mitigation_high = None \/ mitigation_low = None THEN mitigation_tested
    ELSE IF mitigation_tested THEN mitigation_tested
    ELSE IF bias = "LONG" THEN candle.low <= mitigation_high
    ELSE IF bias = "SHORT" THEN candle.high >= mitigation_low
    ELSE mitigation_tested

should_enter ==
    bias \in {"LONG", "SHORT"} /\ mitigation_high # None /\ mitigation_low # None

get_entry_price == candle.close

\* variant of get_sl_price that always takes the LONG stop
get_sl_price_LongStop == mitigation_low

get_sl_price == IF bias = "LONG" THEN mitigation_low ELSE mitigation_high

\* variant of DailyResetDue without the once-per-day test
DailyResetDue_EveryAnalysisBar(timestamp) == is_analysis_period(timestamp)

\* check_daily_reset(timestamp): whether it resets (and returns True)
DailyResetDue(timestamp) ==
    last_analysis_day # timestamp.day /\ is_analysis_period(timestamp)

\* variant of reset_daily_state that leaves the bias as it is
reset_daily_state_KeepsBias ==
    /\ bias' = bias
    /\ mitigation_high' = None
    /\ mitigation_low' = None
    /\ mitigation_candle_idx' = None
    /\ reference_high' = None
    /\ reference_low' = None
    /\ reference_high_idx' = None
    /\ reference_low_idx' = None
    /\ pending_swing_highs' = <<>>
    /\ pending_swing_lows' = <<>>
    /\ mitigation_tested' = FALSE
    /\ ready_to_trade' = FALSE
    /\ entry_candle_count' = 0
    /\ last_bias_change_idx' = None

\* reset_daily_state()
reset_daily_state ==
    /\ bias' = "LONG"
    /\ mitigation_high' = None
    /\ mitigation_low' = None
    /\ mitigation_candle_idx' = None
    /\ reference_high' = None
    /\ reference_low' = None
    /\ reference_high_idx' = None
    /\ reference_low_idx' = None
    /\ pending_swing_highs' = <<>>
    /\ pending_swing_lows' = <<>>
    /\ mitigation_tested' = FALSE
    /\ ready_to_trade' = FALSE
    /\ entry_candle_count' = 0
    /\ last_bias_change_idx' = None

\* ---------------------------------------------------------------- Backtester
\* realised P&L in cents of closing pos at price: signed price delta times the
\* lot value, minus the spread cost of the position
ClosePnl(pos, price) ==
    LET delta == IF pos.direction = "LONG" THEN price - pos.entry_price
                 ELSE pos.entry_price - price
    IN  (delta * PIP_VALUE_PER_LOT - pos.spread_tenths) * pos.lot_size

ClosedAs(pos, exit_time, price, reason) ==
    [entry_time |-> pos.entry_time, exit_time |-> exit_time,
     direction |-> pos.direction, lots |-> pos.lot_size,
     entry_price |-> pos.entry_price, exit_price |-> price,
     pnl |-> ClosePnl(pos, price), close_reason |-> reason]

RECURSIVE SumPnl(_, _)
SumPnl(closed, k) == IF k = 0 THEN 0 ELSE closed[k].pnl + SumPnl(closed, k - 1)

\* Backtester.close_all_positions(time, price, reason)
close_all_positions(exit_time, price, reason) ==
    LET closed == [k \in 1..Len(open_positions) |->
                       ClosedAs(open_positions[k], exit_time, price, reason)]
    IN  /\ closed_positions' = closed_positions \o closed
        /\ balance' = balance + SumPnl(closed, Len(closed))
        /\ open_positions' = <<>>

\* variant of ExitOf that tests the target first
ExitOf_TargetFirst(pos, c) ==
    IF pos.direction = "LONG"
    THEN IF c.high >= pos.entry_price + pos.tp_pips THEN "TP"
         ELSE IF c.low <= pos.sl_price THEN "SL"
         ELSE "NONE"
    ELSE IF c.low <= pos.entry_price - pos.tp_pips THEN "TP"
         ELSE IF c.high >= pos.sl_price THEN "SL"
         ELSE "NONE"

\* the exit update_positions takes for pos on bar c: "SL", "TP" or "NONE";
\* the stop is tested first
ExitOf(pos, c) ==
    IF pos.direction = "LONG"
    THEN IF c.low <= pos.sl_price THEN "SL"
         ELSE IF c.high >= pos.entry_price + pos.tp_pips THEN "TP"
         ELSE "NONE"
    ELSE IF c.high >= pos.sl_price THEN "SL"
         ELSE IF c.low <= pos.entry_price - pos.tp_pips THEN "TP"
         ELSE "NONE"

ExitPrice(pos, c) ==
    IF ExitOf(pos, c) = "SL" THEN pos.sl_price
    ELSE IF pos.direction = "LONG" THEN pos.entry_price + pos.tp_pips
    ELSE pos.entry_price - pos.tp_pips

\* Backtester.update_positions(candle, bias, mitigation_high, mitigation_low)
update_positions(c) ==
    LET hit == SelectSeq(open_positions, LAMBDA pos : ExitOf(pos, c) # "NONE")
        closed == [k \in 1..Len(hit) |->
                       ClosedAs(hit[k], c.time, ExitPrice(hit[k], c), ExitOf(hit[k], c))]
    IN  /\ open_positions' = SelectSeq(open_positions, LAMBDA pos : ExitOf(pos, c) = "NONE")
        /\ closed_positions' = closed_positions \o closed
        /\ balance' = balance + SumPnl(closed, Len(closed))

\* Backtester.open_position(...)
open_position(entry_time, entry_price, direction, lot_size, sl_price, tp_pips) ==
    open_positions' = Append(open_positions,
        [entry_time |-> entry_time, entry_price |-> entry_price,
         direction |-> direction, lot_size |-> lot_size, sl_price |-> sl_price,
         tp_pips |-> tp_pips, spread_tenths |-> SPREAD_TENTHS])

\* --------------------------------------------------------------- data files
\* The loop is followed over the first rows of a data file that has at least
\* two rows more (df_tail).  Data files come in families ("feeds"); a family
\* fixes which rows a file can hold at each index, and how many rows of it
\* the model follows.
StructureBars == 9

CalendarBars == 8

IndicatorBars == 21

\* price of level k, in pips: 1.1000 + k * LevelPips pips
BasePips == 11000

LevelPips == 25

Px(k) == BasePips + k * LevelPips

Candle(t, s) ==
    [time |-> t, open |-> Px(s[1]), high |-> Px(s[2]), low |-> Px(s[3]), close |-> Px(s[4])]

At(day, hour, minute) == [day |-> day, hour |-> hour, minute |-> minute]

\* candle bodies as <<open, high, low, close>> in levels
Flat == <<2, 2, 2, 2>>

Green == <<2, 3, 2, 3>>

Red == <<4, 4, 1, 1>>

Drop == <<1, 1, 0, 0>>

Rise == <<4, 5, 4, 5>>

Wick == <<2, 2, 0, 2>>

AllShapes == {Flat, Green, Red, Drop, Rise, Wick}

\* a bar that stays at the close of Drop
Still == <<0, 0, 0, 0>>

\* a small bearish candle inside the body of Red
Dip == <<3, 3, 2, 2>>

\* "structure": M15 bars from 12:00 of day 1, all inside the trading window;
\* the first five rows build a swing, the later rows are free
StructureShapes(k) ==
    CASE k = 0 -> {Flat, Green}
      [] k = 1 -> {Flat}
      [] k = 2 -> {Red, Rise}
      [] k = 3 -> {Flat, Red}
      [] k = 4 -> {Flat}
      [] k = 6 -> AllShapes \cup {Dip}
      [] OTHER -> AllShapes

QuarterHour(k) == At(1, TRADING_START + (k \div 4), 15 * (k % 4))

\* "calendar": fixed candle bodies, free (non-decreasing, gap-tolerant) times
CalendarShapes(k) ==
    CASE k \in {0, 1, 3, 4} -> {Flat}
      [] k = 2 -> {Red}
      [] k = 5 -> {Drop}
      [] OTHER -> {Flat, Still}

CalendarTimes ==
    { At(1, 10, 45), At(1, 11, 0), At(1, 12, 0), At(1, 18, 55), At(1, 19, 0),
      At(2, 11, 0), At(2, 12, 0) }

\* "indicators": M15 bars from 12:00 of day 1, long enough for the ADX and
\* volatility windows; a fixed swing, a flat stretch, then free rows
IndicatorShapes(k) ==
    CASE k \in {0, 1, 3, 4} -> {Flat}
      [] k = 2 -> {Red}
      [] k = 5 -> {Wick}
      [] k \in 6..13 -> {Flat}
      [] OTHER -> {Flat, Green, Red}

\* "unchecked": the swing of the other families, then rows that may break the
\* OHLC ordering (the loader does not validate rows)
UncheckedBars == 7

\* a row whose high lies below its open and close
Inverted == <<2, 1, 0, 2>>

UncheckedShapes(k) ==
    CASE k \in {0, 1, 3, 4} -> {Flat}
      [] k = 2 -> {Red}
      [] OTHER -> {Flat, Inverted}

\* "uptrend": M15 bars from the start of the analysis hour of day 1, each with
\* its high and its low one level above the previous bar's; bullish, bearish
\* or doji
UptrendBars == 7

UptrendShapes(k) ==
    { <<k, k + 2, k, k + 2>>, <<k + 2, k + 2, k, k>>, <<k + 1, k + 2, k, k + 1>> }

SessionQuarter(k) == At(1, ANALYSIS_START + (k \div 4), 15 * (k % 4))

\* "long": M15 bars round the clock from 10:00 of day 1, so that row 100 is
\* the 11:00 bar of day 2.  Day 2 holds a doji with long wicks (a swing high
\* and a swing low at row 102) and a drop below it at row 105; the rest of
\* the file is flat but for bearish candles at rows 2 and 3 and bullish
\* candles at rows 4, 5 and 6, which lie around the far end of the
\* COUNTER_SCAN rows before rows 102 and 105.
LongBars == 106

Peak == <<2, 4, 1, 2>>

LongShapes(k) ==
    CASE k \in {2, 3} -> {Flat, Red}
      [] k \in {4, 5, 6} -> {Flat, Green}
      [] k = 102 -> {Peak}
      [] k = 105 -> {Drop}
      [] OTHER -> {Flat}

RoundTheClock(k) ==
    LET total == 10 * 60 + 15 * k
    IN  At(1 + (total \div 1440), (total % 1440) \div 60, total % 60)

\* "gapped": M15 bars from 12:00 of day 1 that open away from the previous
\* close: a bullish candle at the bottom of the range, a bearish candle at
\* the top (the swing high), a swing low, and a break of it
GapBars == 8

LowGreen == <<0, 1, 0, 1>>

Top == <<5, 5, 3, 3>>

GapShapes(k) ==
    CASE k = 0 -> {Flat, LowGreen}
      [] k = 2 -> {Top}
      [] k = 3 -> {Red}
      [] k = 6 -> {Flat, Wick, Drop}
      [] k \in {1, 4, 5} -> {Flat}
      [] OTHER -> AllShapes

Feeds == {"structure", "calendar", "indicators", "unchecked", "uptrend", "long", "gapped"}

FeedBars(f) ==
    CASE f = "structure" -> StructureBars
      [] f = "calendar" -> CalendarBars
      [] f = "indicators" -> IndicatorBars
      [] f = "unchecked" -> UncheckedBars
      [] f = "uptrend" -> UptrendBars
      [] f = "long" -> LongBars
      [] f = "gapped" -> GapBars
      [] OTHER -> 1

\* the rows a data file of family f can hold after the rows d
Inputs(f, d) ==
    LET k == Len(d)
    IN  CASE f = "structure" ->
                { Candle(QuarterHour(k), s) : s \in StructureShapes(k) }
          [] f = "calendar" ->
                { Candle(t, s) : t \in { u \in CalendarTimes :
                                           k = 0 \/ Minutes(u) >= Minutes(d[k].time) },
                                 s \in CalendarShapes(k) }
          [] f = "indicators" ->
                { Candle(QuarterHour(k), s) : s \in IndicatorShapes(k) }
          [] f = "unchecked" ->
                { Candle(QuarterHour(k), s) : s \in UncheckedShapes(k) }
          [] f = "uptrend" ->
                { Candle(SessionQuarter(k), s) : s \in UptrendShapes(k) }
          [] f = "long" ->
                { Candle(RoundTheClock(k), s) : s \in LongShapes(k) }
          [] f = "gapped" ->
                { Candle(QuarterHour(k), s) : s \in GapShapes(k) }
          [] OTHER -> {}

\* the news calendars loaded into the filter (news_events_by_month)
Calendars(f) ==
    IF f = "calendar"
    THEN { << [time |-> At(1, 19, 25), name |-> "CPI y/y"] >>,
           << [time |-> At(2, 19, 0), name |-> "FOMC Meeting Minutes"] >> }
    ELSE { <<>> }

\* the last two rows of the data file
Tails(f) ==
    IF f = "indicators"
    THEN { <<Candle(At(2, 0, 0), Flat), Candle(At(2, 0, 15), Flat)>>,
           <<Candle(At(2, 0, 0), Red), Candle(At(2, 0, 15), Red)>> }
    ELSE { <<Candle(At(2, 0, 0), Flat), Candle(At(2, 0, 15), Flat)>> }

\* ------------------------------------------------------------------ actions
Init ==
    /\ feed \in Feeds
    /\ max_open_positions = MAX_OPEN_POSITIONS
    /\ df = <<>>
    /\ df_tail \in Tails(feed)
    /\ pc = "daily_reset"
    /\ news_events \in Calendars(feed)
    /\ bias = "LONG"
    /\ mitigation_high = None
    /\ mitigation_low = None
    /\ mitigation_candle_idx = None
    /\ reference_high = None
    /\ reference_low = None
    /\ reference_high_idx = None
    /\ reference_low_idx = None
    /\ pending_swing_highs = <<>>
    /\ pending_swing_lows = <<>>
    /\ mitigation_tested = FALSE
    /\ ready_to_trade = FALSE
    /\ entry_candle_count = 0
    /\ last_bias_change_idx = None
    /\ last_analysis_day = None
    /\ balance = INITIAL_BALANCE * 100
    /\ open_positions = <<>>
    /\ closed_positions = <<>>
    /\ reset_returned = FALSE
    /\ bias_returned = FALSE
    /\ entries_since_flip = None

\* loop lines 72-78: the next row, check_daily_reset and the DAILY_RESET exit
DailyReset(b) ==
    /\ pc = "daily_reset"
    /\ df' = Append(df, b)
    /\ IF DailyResetDue(b.time)
       THEN /\ reset_daily_state
            /\ last_analysis_day' = b.time.day
            /\ reset_returned' = TRUE
            /\ entries_since_flip' = None
            /\ IF open_positions # <<>>
               THEN close_all_positions(b.time, b.close, "DAILY_RESET")
               ELSE UNCHANGED account
       ELSE /\ UNCHANGED <<engine, last_analysis_day, account, entries_since_flip>>
            /\ reset_returned' = FALSE
    /\ bias_returned' = FALSE
    /\ pc' = "end_of_day"
    /\ UNCHANGED <<feed, max_open_positions, df_tail, news_events>>

\* loop lines 80-82
EndOfDay ==
    /\ pc = "end_of_day"
    /\ IF should_close_all_positions(candle.time) /\ open_positions # <<>>
       THEN close_all_positions(candle.time, candle.close, "END_OF_DAY")
       ELSE UNCHANGED account
    /\ pc' = "news"
    /\ UNCHANGED <<feed, max_open_positions, df, df_tail, news_events, engine, last_analysis_day,
                   reset_returned, bias_returned, entries_since_flip>>

\* loop lines 84-87
NewsExit ==
    /\ pc = "news"
    /\ LET news == is_news_time(news_events, candle.time)
       IN  IF ENABLE_NEWS_FILTER /\ news.blackout /\ open_positions # <<>>
           THEN close_all_positions(candle.time, candle.close, "NEWS_" \o news.event)
           ELSE UNCHANGED account
    /\ pc' = "swing"
    /\ UNCHANGED <<feed, max_open_positions, df, df_tail, news_events, engine, last_analysis_day,
                   reset_returned, bias_returned, entries_since_flip>>

\* strategy.update_swing_levels(df, i)
update_swing_levels ==
    /\ pc = "swing"
    /\ IF ~InEngineHours(candle.time)
       THEN UNCHANGED <<reference_high, reference_high_idx, reference_low,
                        reference_low_idx, pending_swing_highs, pending_swing_lows,
                        mitigation_high, mitigation_low, mitigation_candle_idx>>
       ELSE /\ reference_high' = PromotedRefHigh[1]
            /\ reference_high_idx' = PromotedRefHigh[2]
            /\ reference_low' = PromotedRefLow[1]
            /\ reference_low_idx' = PromotedRefLow[2]
            /\ pending_swing_highs' = IF BreaksRefLow THEN <<>> ELSE DetectedHighs
            /\ pending_swing_lows' = IF BreaksRefHigh THEN <<>> ELSE DetectedLows
            /\ mitigation_high' = ZoneAfterLow.high
            /\ mitigation_low' = ZoneAfterLow.low
            /\ mitigation_candle_idx' = ZoneAfterLow.idx
    /\ pc' = "bias"
    /\ UNCHANGED <<feed, max_open_positions, df, df_tail, news_events, bias, mitigation_tested,
                   ready_to_trade, entry_candle_count, last_bias_change_idx,
                   last_analysis_day, account, reset_returned, bias_returned,
                   entries_since_flip>>

\* strategy.check_bias_change(df, i)
check_bias_change ==
    /\ pc = "bias"
    /\ IF FlipsToShort
       THEN /\ bias' = "SHORT"
            /\ mitigation_high' = FlipZone(df, cur_idx, "green").high
            /\ mitigation_low' = FlipZone(df, cur_idx, "green").low
            /\ mitigation_candle_idx' = FlipZone(df, cur_idx, "green").idx
            /\ bias_returned' = TRUE
            /\ entries_since_flip' = 0
            /\ UNCHANGED <<ready_to_trade, mitigation_tested, entry_candle_count,
                           last_bias_change_idx>>
       ELSE IF FlipsToLong
       THEN /\ bias' = "LONG"
            /\ mitigation_high' = FlipZone(df, cur_idx, "red").high
            /\ mitigation_low' = FlipZone(df, cur_idx, "red").low
            /\ mitigation_candle_idx' = FlipZone(df, cur_idx, "red").idx
            /\ bias_returned' = TRUE
            /\ entries_since_flip' = 0
            /\ ready_to_trade' = FALSE
            /\ mitigation_tested' = FALSE
            /\ entry_candle_count' = 0
            /\ last_bias_change_idx' = cur_idx
       ELSE /\ bias_returned' = FALSE
            /\ UNCHANGED <<bias, mitigation_high, mitigation_low, mitigation_candle_idx,
                           ready_to_trade, mitigation_tested, entry_candle_count,
                           last_bias_change_idx, entries_since_flip>>
    /\ pc' = "mitigation_test"
    /\ UNCHANGED <<feed, max_open_positions, df, df_tail, news_events, reference_high, reference_low,
                   reference_high_idx, reference_low_idx, pending_swing_highs,
                   pending_swing_lows, last_analysis_day, account, reset_returned>>

\* variant of check_mitigation_test that marks the strategy ready to trade as
\* soon as the zone has been tested
check_mitigation_test_SetsReady ==
    /\ pc = "mitigation_test"
    /\ mitigation_tested' = MitigationTestedAfter
    /\ ready_to_trade' = MitigationTestedAfter
    /\ entry_candle_count' = IF ready_to_trade THEN entry_candle_count + 1
                             ELSE entry_candle_count
    /\ pc' = "positions"
    /\ UNCHANGED <<feed, max_open_positions, df, df_tail, news_events, bias, mitigation_high, mitigation_low,
                   mitigation_candle_idx, reference_high, reference_low,
                   reference_high_idx, reference_low_idx, pending_swing_highs,
                   pending_swing_lows, last_bias_change_idx,
                   last_analysis_day, account, reset_returned, bias_returned,
                   entries_since_flip>>


\* loop lines 92-97: check_mitigation_test(candle), then the entry-candle count
check_mitigation_test ==
    /\ pc = "mitigation_test"
    /\ mitigation_tested' = MitigationTestedAfter
    /\ entry_candle_count' = IF ready_to_trade THEN entry_candle_count + 1
                             ELSE entry_candle_count
    /\ pc' = "positions"
    /\ UNCHANGED <<feed, max_open_positions, df, df_tail, news_events, bias, mitigation_high, mitigation_low,
                   mitigation_candle_idx, reference_high, reference_low,
                   reference_high_idx, reference_low_idx, pending_swing_highs,
                   pending_swing_lows, ready_to_trade, last_bias_change_idx,
                   last_analysis_day, account, reset_returned, bias_returned,
                   entries_since_flip>>

\* loop line 99
UpdatePositions ==
    /\ pc = "positions"
    /\ update_positions(candle)
    /\ pc' = "entry"
    /\ UNCHANGED <<feed, max_open_positions, df, df_tail, news_events, engine, last_analysis_day,
                   reset_returned, bias_returned, entries_since_flip>>

\* the lot size the loop computes on this bar (line 105)
EntryLotSize == calculate_position_size(balance, get_entry_price, get_sl_price)

\* variant of EntryTaken that also trades a lot size of 0
EntryTaken_ZeroLot ==
    /\ is_trading_hours(news_events, df, df_tail, cur_idx)
    /\ should_enter
    /\ (max_open_positions = None \/ Len(open_positions) < max_open_positions)
    /\ mitigation_high # None /\ mitigation_low # None
    /\ EntryLotSize >= 0

\* variant of EntryTaken that lets the count reach one above the cap
EntryTaken_CapInclusive ==
    /\ is_trading_hours(news_events, df, df_tail, cur_idx)
    /\ should_enter
    /\ (max_open_positions = None \/ Len(open_positions) <= max_open_positions)
    /\ mitigation_high # None /\ mitigation_low # None
    /\ EntryLotSize > 0

\* loop lines 101-107: every condition between the bar and open_position
EntryTaken ==
    /\ is_trading_hours(news_events, df, df_tail, cur_idx)
    /\ should_enter
    /\ (max_open_positions = None \/ Len(open_positions) < max_open_positions)
    /\ mitigation_high # None /\ mitigation_low # None
    /\ EntryLotSize > 0

\* variant of Entry in which a bar that fails is_trading_hours also clears
\* the mitigation-test latch
Entry_PenaltyOnBlock ==
    /\ pc = "entry"
    /\ IF EntryTaken
       THEN /\ open_position(candle.time, get_entry_price, bias, EntryLotSize,
                             get_sl_price, get_tp_pips_for_entry_candle(entry_candle_count))
            /\ entries_since_flip' = IF entries_since_flip = None THEN None
                                     ELSE entries_since_flip + 1
       ELSE UNCHANGED <<open_positions, entries_since_flip>>
    /\ mitigation_tested' = IF is_trading_hours(news_events, df, df_tail, cur_idx)
                            THEN mitigation_tested ELSE FALSE
    /\ pc' = "daily_reset"
    /\ UNCHANGED <<feed, max_open_positions, df, df_tail, news_events, bias,
                   mitigation_high, mitigation_low, mitigation_candle_idx,
                   reference_high, reference_low, reference_high_idx,
                   reference_low_idx, pending_swing_highs, pending_swing_lows,
                   ready_to_trade, entry_candle_count, last_bias_change_idx,
                   last_analysis_day, balance, closed_positions, reset_returned,
                   bias_returned>>

\* loop lines 101-119
Entry ==
    /\ pc = "entry"
    /\ IF EntryTaken
       THEN /\ open_position(candle.time, get_entry_price, bias, EntryLotSize,
                             get_sl_price, get_tp_pips_for_entry_candle(entry_candle_count))
            /\ entries_since_flip' = IF entries_since_flip = None THEN None
                                     ELSE entries_since_flip + 1
       ELSE UNCHANGED <<open_positions, entries_since_flip>>
    /\ pc' = "daily_reset"
    /\ UNCHANGED <<feed, max_open_positions, df, df_tail, news_events, engine, last_analysis_day,
                   balance, closed_positions, reset_returned, bias_returned>>

Next ==
    \/ \E b \in Inputs(feed, df) : Len(df) < FeedBars(feed) /\ DailyReset(b)
    \/ EndOfDay
    \/ NewsExit
    \/ update_swing_levels
    \/ check_bias_change
    \/ check_mitigation_test
    \/ UpdatePositions
    \/ Entry

Spec == Init /\ [][Next]_vars

\* ------------------------------------------------------- sizing in isolation
\* calculate_position_size and the entry it feeds (loop lines 101-119), applied
\* to inputs drawn from bounded sets: the account balance in cents, the bar
\* (its close is the entry price), the bias and the mitigation zone.
SizeBalances == { 2000, 50000, 100000, 1000000 }

MaxZoneLevel == 4

InitSize ==
    /\ feed = "sizing"
    /\ max_open_positions = MAX_OPEN_POSITIONS
    /\ \E s \in AllShapes : df = << Candle(QuarterHour(0), s) >>
    /\ df_tail \in Tails(feed)
    /\ pc = "entry"
    /\ news_events = <<>>
    /\ bias \in {"LONG", "SHORT"}
    /\ \E lo \in 0..MaxZoneLevel : \E hi \in lo..MaxZoneLevel :
           mitigation_low = Px(lo) /\ mitigation_high = Px(hi)
    /\ mitigation_candle_idx = 0
    /\ reference_high = None
    /\ reference_low = None
    /\ reference_high_idx = None
    /\ reference_low_idx = None
    /\ pending_swing_highs = <<>>
    /\ pending_swing_lows = <<>>
    /\ mitigation_tested = FALSE
    /\ ready_to_trade = FALSE
    /\ entry_candle_count = 0
    /\ last_bias_change_idx = None
    /\ last_analysis_day = None
    /\ balance \in SizeBalances
    /\ open_positions = <<>>
    /\ closed_positions = <<>>
    /\ reset_returned = FALSE
    /\ bias_returned = FALSE
    /\ entries_since_flip = None

NextSize == Entry

SpecSize == InitSize /\ [][NextSize]_vars

\* the same, with the balance also drawn at and below zero
AnyBalances == { -1000000, -2000, -1, 0, 1, 2000, 1000000 }

InitSizeAnyBalance ==
    /\ feed = "sizing"
    /\ max_open_positions = MAX_OPEN_POSITIONS
    /\ \E s \in AllShapes : df = << Candle(QuarterHour(0), s) >>
    /\ df_tail \in Tails(feed)
    /\ pc = "entry"
    /\ news_events = <<>>
    /\ bias \in {"LONG", "SHORT"}
    /\ \E lo \in 0..MaxZoneLevel : \E hi \in lo..MaxZoneLevel :
           mitigation_low = Px(lo) /\ mitigation_high = Px(hi)
    /\ mitigation_candle_idx = 0
    /\ reference_high = None
    /\ reference_low = None
    /\ reference_high_idx = None
    /\ reference_low_idx = None
    /\ pending_swing_highs = <<>>
    /\ pending_swing_lows = <<>>
    /\ mitigation_tested = FALSE
    /\ ready_to_trade = FALSE
    /\ entry_candle_count = 0
    /\ last_bias_change_idx = None
    /\ last_analysis_day = None
    /\ balance \in AnyBalances
    /\ open_positions = <<>>
    /\ closed_positions = <<>>
    /\ reset_returned = FALSE
    /\ bias_returned = FALSE
    /\ entries_since_flip = None

SpecSizeAnyBalance == InitSizeAnyBalance /\ [][NextSize]_vars

\* ------------------------------------------------ the loop under a position cap
\* config.MAX_OPEN_POSITIONS is None; the loop is also followed with the cap
\* set to a number, over the data files of the family "structure".
PositionCaps == { None, 1, 2 }

InitCap ==
    /\ feed = "structure"
    /\ max_open_positions \in PositionCaps
    /\ df = <<>>
    /\ df_tail \in Tails(feed)
    /\ pc = "daily_reset"
    /\ news_events \in Calendars(feed)
    /\ bias = "LONG"
    /\ mitigation_high = None
    /\ mitigation_low = None
    /\ mitigation_candle_idx = None
    /\ reference_high = None
    /\ reference_low = None
    /\ reference_high_idx = None
    /\ reference_low_idx = None
    /\ pending_swing_highs = <<>>
    /\ pending_swing_lows = <<>>
    /\ mitigation_tested = FALSE
    /\ ready_to_trade = FALSE
    /\ entry_candle_count = 0
    /\ last_bias_change_idx = None
    /\ last_analysis_day = None
    /\ balance = INITIAL_BALANCE * 100
    /\ open_positions = <<>>
    /\ closed_positions = <<>>
    /\ reset_returned = FALSE
    /\ bias_returned = FALSE
    /\ entries_since_flip = None

SpecCap == InitCap /\ [][Next]_vars

\* ------------------------------------------------- news filter in isolation
\* is_news_time and the news exit it feeds (loop lines 84-87), applied to
\* inputs drawn from bounded sets: the calendar loaded into the filter (up to
\* two events), the bar's timestamp, and whether a position is open.
NewsNames ==
    { "FOMC", "FOMC Meeting Minutes", "NFP", "Non-Farm Employment Change",
      "ADP Non-Farm Employment Change", "CPI", "CPI y/y" }

NewsEventTimes == { At(1, 13, 30), At(2, 0, 10) }

NewsEvents == { [time |-> t, name |-> n] : t \in NewsEventTimes, n \in NewsNames }

NewsCalendars ==
    {<<>>} \cup { <<e>> : e \in NewsEvents }
           \cup { <<e1, e2>> : e1 \in NewsEvents, e2 \in NewsEvents }

\* bar times around the two ends of the buffers of the events, and away from them
NewsClock ==
    { At(1, 9, 0), At(1, 12, 59), At(1, 13, 0), At(1, 13, 30), At(1, 14, 0),
      At(1, 14, 1), At(1, 23, 39), At(1, 23, 40), At(2, 0, 40), At(2, 0, 41),
      At(2, 12, 0), At(3, 12, 0) }

NewsPositions ==
    { <<>>,
      << [entry_time |-> At(1, 8, 45), entry_price |-> Px(2), direction |-> "LONG",
          lot_size |-> MIN_LOT, sl_price |-> Px(0), tp_pips |-> TP_FIRST,
          spread_tenths |-> SPREAD_TENTHS] >> }

InitNews ==
    /\ feed = "news"
    /\ max_open_positions = MAX_OPEN_POSITIONS
    /\ \E t \in NewsClock : df = << Candle(t, Flat) >>
    /\ df_tail \in Tails(feed)
    /\ pc = "news"
    /\ news_events \in NewsCalendars
    /\ bias = "LONG"
    /\ mitigation_high = None
    /\ mitigation_low = None
    /\ mitigation_candle_idx = None
    /\ reference_high = None
    /\ reference_low = None
    /\ reference_high_idx = None
    /\ reference_low_idx = None
    /\ pending_swing_highs = <<>>
    /\ pending_swing_lows = <<>>
    /\ mitigation_tested = FALSE
    /\ ready_to_trade = FALSE
    /\ entry_candle_count = 0
    /\ last_bias_change_idx = None
    /\ last_analysis_day = None
    /\ balance = INITIAL_BALANCE * 100
    /\ open_positions \in NewsPositions
    /\ closed_positions = <<>>
    /\ reset_returned = FALSE
    /\ bias_returned = FALSE
    /\ entries_since_flip = None

NextNews == NewsExit

SpecNews == InitNews /\ [][NextNews]_vars

\* ===================================================================== claims
\* a step of the loop that opens a position, and the position it opens
PositionOpened == Len(open_positions') = Len(open_positions) + 1

NewPosition == open_positions'[Len(open_positions')]

\* the state check_bias_change returns in
AfterBiasCheck == pc = "mitigation_test"

\* C1: every bias flip, in either direction, resets readiness: in the state
\* check_bias_change returns on the flipping bar, ready_to_trade and
\* mitigation_tested are false and entry_candle_count is 0.
C1_FlipResetsReadiness ==
    (AfterBiasCheck /\ bias_returned) =>
        (~ready_to_trade /\ ~mitigation_tested /\ entry_candle_count = 0)

\* C2: a bar whose close equals the boundary (mitigation_low under LONG,
\* mitigation_high under SHORT) does not flip: check_bias_change returns False
\* and leaves bias and the mitigation zone as they were.
C2_NoFlipOnEquality ==
    [][ ( /\ pc = "bias"
          /\ mitigation_high # None /\ mitigation_low # None
          /\ \/ bias = "LONG" /\ candle.close = mitigation_low
             \/ bias = "SHORT" /\ candle.close = mitigation_high )
        => ( /\ bias_returned' = FALSE
             /\ bias' = bias
             /\ mitigation_high' = mitigation_high
             /\ mitigation_low' = mitigation_low
             /\ mitigation_candle_idx' = mitigation_candle_idx ) ]_vars

\* C2 witness: check_bias_change has returned False on a bar that closed
\* exactly on mitigation_low under LONG bias, inside the engine hours
C2_Witness ==
    /\ AfterBiasCheck
    /\ ~bias_returned
    /\ bias = "LONG"
    /\ mitigation_low # None
    /\ InEngineHours(candle.time)
    /\ candle.close = mitigation_low

\* the ladder of the claim: 25, 20, then 15 pips
Ladder(n) == IF n = 0 THEN TP_FIRST ELSE IF n = 1 THEN TP_SECOND ELSE TP_THIRD

\* C3: the first position opened after a flip gets a 25 pip target, the
\* second 20 pips, the third and every later one 15 pips.
C3_TargetLadder ==
    [][ (PositionOpened /\ entries_since_flip # None)
        => NewPosition.tp_pips = Ladder(entries_since_flip) ]_vars

\* C4: for every position opened, lots x stop distance in pips x pip value is
\* at most balance at open x max_stop_loss_percent, up to the rounding of the
\* lot size to 0.01 (half a hundredth of a lot at that stop distance).
\* Both sides are in cents x 1000.
C4_MaxStopLossCap ==
    [][ PositionOpened =>
          LET per_lot == 1000 * Abs(NewPosition.entry_price - NewPosition.sl_price)
                              * PIP_VALUE_PER_LOT
          IN  2 * (NewPosition.lot_size * per_lot - balance * MAX_STOP_LOSS_MILLI)
                  <= per_lot ]_vars

\* C5: every position is opened in a state where mitigation_tested is true.
C5_EntryAfterMitigationTest ==
    [][ PositionOpened => mitigation_tested ]_vars

\* C6 as stated: a reference level changes value in update_swing_levels only
\* on a bar that strictly breaks the opposite reference level.
C6_ChangesOnlyOnBreak ==
    [][ /\ (pc = "swing" /\ reference_high' # reference_high)
            => (reference_low # None /\ candle.low < reference_low)
        /\ (pc = "swing" /\ reference_low' # reference_low)
            => (reference_high # None /\ candle.high > reference_high) ]_vars

\* C6 (amended): a reference level changes value only (a) in the daily reset,
\* which unsets it, (b) in update_swing_levels while it is unset and a swing is
\* pending, where it takes the highest (lowest) pending swing without any
\* break, or (c) in update_swing_levels on a bar whose low is strictly below
\* the reference low (whose high is strictly above the reference high, as that
\* call has just left it); a bar that only equals the level changes nothing.
C6_ReferenceChanges ==
    [][ /\ (reference_high' # reference_high) =>
              \/ pc = "daily_reset" /\ reset_returned' /\ reference_high' = None
              \/ /\ pc = "swing"
                 /\ reference_high = None /\ pending_swing_highs # <<>>
                 /\ reference_high' = FirstMax(pending_swing_highs)[1]
              \/ /\ pc = "swing"
                 /\ InitRefLow[1] # None
                 /\ candle.low < InitRefLow[1]
        /\ (reference_low' # reference_low) =>
              \/ pc = "daily_reset" /\ reset_returned' /\ reference_low' = None
              \/ /\ pc = "swing"
                 /\ reference_low = None /\ pending_swing_lows # <<>>
                 /\ reference_low' = FirstMin(pending_swing_lows)[1]
              \/ /\ pc = "swing"
                 /\ reference_high' # None
                 /\ candle.high > reference_high' ]_vars

\* C6 witness: update_swing_levels has just promoted the swing high it
\* detected on this bar, on a strict break of the reference low
C6_Witness ==
    /\ pc = "bias"
    /\ reference_high # None
    /\ reference_high_idx = cur_idx - SWING_LOOKBACK
    /\ reference_low # None
    /\ candle.low < reference_low
    /\ pending_swing_highs = <<>>

\* the candle the mitigation zone was taken from
ZoneCandle == Bar(df, mitigation_candle_idx)

\* the colour the zone candle must have under the current bias
CounterColour(row) ==
    IF bias = "LONG" THEN row.close < row.open ELSE row.close > row.open

\* C7 as stated: whenever the zone is set, its candle is bearish under LONG
\* bias and bullish under SHORT bias.
C7_ZoneFromCounterCandle ==
    (mitigation_high # None /\ mitigation_low # None) => CounterColour(ZoneCandle)

\* C7 (amended): whenever the zone is set, it is the high and low of one
\* candle of the file, and that candle either has the counter-trend colour
\* (bearish under LONG, bullish under SHORT) or is the flipping bar itself,
\* taken because the backward scan found no candle of that colour in the
\* COUNTER_SCAN bars before it.
C7_ZoneFromCounterCandleOrFlipBar ==
    (mitigation_high # None /\ mitigation_low # None) =>
        /\ mitigation_candle_idx \in 0..cur_idx
        /\ mitigation_high = ZoneCandle.high
        /\ mitigation_low = ZoneCandle.low
        /\ \/ CounterColour(ZoneCandle)
           \/ \A k \in Max2(0, mitigation_candle_idx - COUNTER_SCAN)
                          ..(mitigation_candle_idx - 1) :
                  ~CounterColour(Bar(df, k))

\* C7 witness: under LONG bias the zone is a bearish candle that has candles
\* of other colours after it and before the bar that confirmed the high
C7_Witness ==
    /\ mitigation_high # None
    /\ bias = "LONG"
    /\ ZoneCandle.close < ZoneCandle.open
    /\ mitigation_candle_idx < cur_idx - SWING_LOOKBACK

\* C8: check_daily_reset returns True exactly on the first bar of a calendar
\* day whose hour lies in the analysis window (so at most once per day), and
\* the state right after it is the cleared state.
C8_DailyResetOncePerDay ==
    pc = "end_of_day" =>
        /\ reset_returned <=>
              /\ is_analysis_period(candle.time)
              /\ \A k \in 0..(cur_idx - 1) :
                    ~(Bar(df, k).time.day = candle.time.day
                        /\ is_analysis_period(Bar(df, k).time))
        /\ reset_returned =>
              /\ bias = "LONG"
              /\ mitigation_high = None /\ mitigation_low = None
              /\ reference_high = None /\ reference_low = None
              /\ pending_swing_highs = <<>> /\ pending_swing_lows = <<>>
              /\ ~mitigation_tested /\ ~ready_to_trade /\ entry_candle_count = 0

\* C8 witness: the reset of a second day, which closed a position carried
\* over from the first day
C8_Witness ==
    /\ pc = "end_of_day"
    /\ reset_returned
    /\ \E k \in 0..(cur_idx - 1) :
           Bar(df, k).time.day < candle.time.day /\ is_analysis_period(Bar(df, k).time)
    /\ \E k \in 1..Len(closed_positions) :
           /\ closed_positions[k].close_reason = "DAILY_RESET"
           /\ closed_positions[k].exit_time = candle.time

\* C9: every position opened on calendar day D is opened after a daily reset
\* of day D.  (A file whose first day has no bar in the analysis hour has no
\* earlier day to carry state over from; that day is not held against the
\* claim.)
C9_EntryAfterResetOfTheDay ==
    [][ PositionOpened =>
          \/ last_analysis_day = candle.time.day
          \/ \A k \in 0..cur_idx : Bar(df, k).time.day = candle.time.day ]_vars

\* C10: a position is opened on a bar only if the bar's hour is inside the
\* trading window, its time is not in a news blackout, DX is at least the
\* choppy threshold and the recent-volatility-spike filter is false.
C10_EntryGates ==
    [][ PositionOpened =>
          /\ TRADING_START <= candle.time.hour /\ candle.time.hour < TRADING_END
          /\ ~is_news_time(news_events, candle.time).blackout
          /\ calculate_adx(df, cur_idx) >= CHOPPY_ADX
          /\ ~is_high_volatility_recent(df, df_tail, cur_idx) ]_vars

\* C10 witness: a position has just been opened on a bar late enough for the
\* DX and the volatility filter to be computed from the bars
C10_Witness ==
    /\ pc = "daily_reset"
    /\ cur_idx >= VOL_LOOKBACK + VOL_MIN_HISTORY
    /\ open_positions # <<>>
    /\ open_positions[Len(open_positions)].entry_time = candle.time

\* C11: no position is opened on a bar in the last five minutes before the
\* end of the trading window (with the configured window, 18:55 to 18:59).
C11_NoEntryInLastFiveMinutes ==
    [][ PositionOpened =>
          ~(candle.time.hour = TRADING_END - 1 /\ candle.time.minute >= 55) ]_vars

\* C12: the entry decision at bar i depends on the rows 0..i only: with any
\* other rows after bar i in the data file (here, any other last two rows),
\* is_trading_hours and should_enter give the same answer at bar i.
C12_EntryDecisionCausal ==
    pc = "entry" =>
        \A t \in Tails(feed) :
            (is_trading_hours(news_events, df, t, cur_idx) /\ should_enter)
                = (is_trading_hours(news_events, df, df_tail, cur_idx) /\ should_enter)

\* the OHLC ordering of a row
ValidBar(row) ==
    /\ row.high >= Max2(row.open, row.close)
    /\ row.low <= Min2(row.open, row.close)

\* the bar a step of the loop works on (the step that fetches a row works on
\* the row it fetches)
ProcessedBar == IF pc = "daily_reset" THEN df'[Len(df')] ELSE candle

\* C13: a bar that violates the OHLC ordering is refused: no step of the loop
\* working on it changes the engine state or the account.
C13_InvalidBarRefused ==
    [][ ~ValidBar(ProcessedBar) => UNCHANGED <<engine, last_analysis_day, account>> ]_vars

\* C14: calculate_position_size returns 0 when the stop price is undefined or
\* equals the entry price, and on a bar where that is the case the loop opens
\* no position and leaves the account unchanged.
C14_ZeroLotNoTrade ==
    [][ (pc = "entry" /\ (get_sl_price = None \/ get_entry_price = get_sl_price))
        => /\ calculate_position_size(balance, get_entry_price, get_sl_price) = 0
           /\ calculate_position_size(balance, get_entry_price, None) = 0
           /\ UNCHANGED account ]_vars

\* C14 witness: the loop has passed the entry step of a bar inside the trading
\* gates whose close equals the stop, with the zone set
C14_Witness ==
    /\ pc = "daily_reset"
    /\ Len(df) > 0
    /\ is_trading_hours(news_events, df, df_tail, cur_idx)
    /\ should_enter
    /\ get_entry_price = get_sl_price

\* risk fractions a strategy is constructed with, in thousandths
RiskMillis == {1, 2, 5, 10}

\* C15: for fixed balance, entry and stop, when the max-stop-loss cap is hit
\* at neither risk, the lot size at twice the risk is twice the lot size, up
\* to one step of the 0.01 granularity, and never smaller.
C15_DoubleRiskDoubleLot ==
    \A r \in RiskMillis :
        LET one == SizeAtRisk(r, balance, get_entry_price, get_sl_price)
            two == SizeAtRisk(2 * r, balance, get_entry_price, get_sl_price)
        IN  ( /\ get_entry_price # get_sl_price
              /\ ~CapHit(r, balance, get_entry_price, get_sl_price)
              /\ ~CapHit(2 * r, balance, get_entry_price, get_sl_price) )
            => (Abs(two - 2 * one) <= 1 /\ two >= one)

\* C15 witness: a position sized at the configured risk with a lot size above
\* the minimum lot, the cap not hit, and twice the risk giving twice the lots
C15_Witness ==
    /\ pc = "daily_reset"
    /\ open_positions # <<>>
    /\ open_positions[1].lot_size
           = calculate_position_size(balance, get_entry_price, get_sl_price)
    /\ get_entry_price # get_sl_price
    /\ ~CapHit(2 * RISK_PER_TRADE_MILLI, balance, get_entry_price, get_sl_price)
    /\ calculate_position_size(balance, get_entry_price, get_sl_price) > MIN_LOT
    /\ SizeAtRisk(2 * RISK_PER_TRADE_MILLI, balance, get_entry_price, get_sl_price)
           = 2 * calculate_position_size(balance, get_entry_price, get_sl_price)

\* idx has SWING_LOOKBACK rows on both sides in the frame d
FullContext(d, idx) == idx - SWING_LOOKBACK >= 0 /\ idx + SWING_LOOKBACK <= Len(d) - 1

\* the rows around idx, without idx
Neighbours(idx) == ((idx - SWING_LOOKBACK)..(idx + SWING_LOOKBACK)) \ {idx}

\* C16: on every frame the loop fetches a row into, and every index,
\* is_swing_high is true exactly when the
\* index has lookback rows on both sides and its high is strictly greater
\* than the high of every other row of [idx-lookback, idx+lookback], and
\* is_swing_low exactly when its low is strictly less than every other low of
\* that window; the answer is a function of that window alone.
C16_SwingIffStrictExtreme ==
    pc = "end_of_day" =>
        \A idx \in (-1)..Len(df) :
            /\ is_swing_high(df, idx) <=>
                  /\ FullContext(df, idx)
                  /\ \A i \in Neighbours(idx) : Bar(df, i).high < Bar(df, idx).high
            /\ is_swing_low(df, idx) <=>
                  /\ FullContext(df, idx)
                  /\ \A i \in Neighbours(idx) : Bar(df, i).low > Bar(df, idx).low

\* C16 witness: a frame with a swing high, a swing low, and an index with
\* full context whose high only ties with a neighbour's
C16_Witness ==
    /\ pc = "end_of_day"
    /\ \E idx \in 0..cur_idx : is_swing_high(df, idx)
    /\ \E idx \in 0..cur_idx : is_swing_low(df, idx)
    /\ \E idx \in 0..cur_idx :
           /\ FullContext(df, idx)
           /\ ~is_swing_high(df, idx)
           /\ \A i \in Neighbours(idx) : Bar(df, i).high <= Bar(df, idx).high

\* C17: mitigation_tested is a latch: once true it becomes false only in a
\* step that flips the bias or in the daily reset; every other step,
\* including update_swing_levels reassigning the zone, leaves it true.
C17_MitigationTestedLatch ==
    [][ (mitigation_tested /\ ~mitigation_tested')
        => \/ pc = "bias" /\ bias_returned' /\ bias' # bias
           \/ pc = "daily_reset" /\ reset_returned' ]_vars

\* C17 witness: the latch was set on an earlier bar, and on this bar
\* update_swing_levels has promoted a new reference high under LONG bias and
\* taken a zone other than the one an open position was opened on
C17_Witness ==
    /\ pc = "bias"
    /\ mitigation_tested
    /\ bias = "LONG"
    /\ reference_high_idx = cur_idx - SWING_LOOKBACK
    /\ mitigation_candle_idx = reference_high_idx
    /\ pending_swing_highs = <<>>
    /\ \E k \in 1..Len(open_positions) :
           /\ open_positions[k].direction = "LONG"
           /\ open_positions[k].sl_price # mitigation_low

\* the bar touches both the stop and the target of the open position pos
BothTouched(pos, c) ==
    IF pos.direction = "LONG"
    THEN c.low <= pos.sl_price /\ c.high >= pos.entry_price + pos.tp_pips
    ELSE c.high >= pos.sl_price /\ c.low <= pos.entry_price - pos.tp_pips

\* the records update_positions has just added to closed_positions
NewlyClosed == SubSeq(closed_positions', Len(closed_positions) + 1, Len(closed_positions'))

\* rec is the closing record of pos
ClosingOf(pos, rec) ==
    /\ rec.entry_time = pos.entry_time
    /\ rec.entry_price = pos.entry_price
    /\ rec.direction = pos.direction
    /\ rec.lots = pos.lot_size

\* C18: when a bar touches both the stop and the target of an open position,
\* update_positions closes the position on that bar at its stop price, with
\* reason SL, and not at the target.
C18_StopBeforeTarget ==
    [][ pc = "positions" =>
          \A k \in 1..Len(open_positions) :
              BothTouched(open_positions[k], candle) =>
                  /\ \E j \in 1..Len(NewlyClosed) :
                         ClosingOf(open_positions[k], NewlyClosed[j])
                  /\ \A j \in 1..Len(NewlyClosed) :
                         ClosingOf(open_positions[k], NewlyClosed[j]) =>
                             /\ NewlyClosed[j].close_reason = "SL"
                             /\ NewlyClosed[j].exit_price = open_positions[k].sl_price
                             /\ NewlyClosed[j].exit_time = candle.time
                  /\ \A j \in 1..Len(open_positions') :
                         open_positions'[j] # open_positions[k] ]_vars

\* C18 witness: update_positions has just closed, at its stop, a LONG position
\* whose stop and target the bar both touched
C18_Witness ==
    /\ pc = "entry"
    /\ \E j \in 1..Len(closed_positions) :
           /\ closed_positions[j].exit_time = candle.time
           /\ closed_positions[j].close_reason = "SL"
           /\ closed_positions[j].direction = "LONG"
           /\ candle.low <= closed_positions[j].exit_price
           /\ candle.high >= closed_positions[j].entry_price + TP_FIRST

\* every position open before the step is closed by it, once, at the bar's
\* close, with the reason tag, and nothing else is closed
AllClosedAs(c, tag) ==
    /\ open_positions' = <<>>
    /\ Len(closed_positions') = Len(closed_positions) + Len(open_positions)
    /\ \A k \in 1..Len(open_positions) :
           LET rec == closed_positions'[Len(closed_positions) + k]
           IN  /\ ClosingOf(open_positions[k], rec)
               /\ rec.close_reason = tag
               /\ rec.exit_price = c.close
               /\ rec.exit_time = c.time
    /\ SubSeq(closed_positions', 1, Len(closed_positions)) = closed_positions

\* C19: the forced exits come before the positions are marked to the bar, in
\* the order daily reset, end of session, news blackout, each only when
\* positions are open: the first of the three conditions that holds on the
\* bar closes every open position once with its own tag (DAILY_RESET,
\* END_OF_DAY, NEWS_<event>), and the later ones find nothing left to close.
C19_ForcedExitOrder ==
    [][ /\ pc = "daily_reset" =>
            IF reset_returned' /\ open_positions # <<>>
            THEN AllClosedAs(ProcessedBar, "DAILY_RESET")
            ELSE UNCHANGED account
        /\ pc = "end_of_day" =>
            /\ reset_returned => open_positions = <<>>
            /\ IF candle.time.hour >= TRADING_END /\ open_positions # <<>>
               THEN AllClosedAs(candle, "END_OF_DAY")
               ELSE UNCHANGED account
        /\ pc = "news" =>
            /\ (reset_returned \/ candle.time.hour >= TRADING_END) => open_positions = <<>>
            /\ IF is_news_time(news_events, candle.time).blackout /\ open_positions # <<>>
               THEN AllClosedAs(candle, "NEWS_" \o is_news_time(news_events, candle.time).event)
               ELSE UNCHANGED account
        /\ ( /\ pc = "swing"
             /\ \/ reset_returned
                \/ candle.time.hour >= TRADING_END
                \/ is_news_time(news_events, candle.time).blackout )
            => open_positions = <<>>
      ]_vars

\* C19 witness: positions were closed with tag END_OF_DAY on a bar that is
\* also inside a news blackout
C19_Witness ==
    /\ pc = "swing"
    /\ candle.time.hour >= TRADING_END
    /\ is_news_time(news_events, candle.time).blackout
    /\ \E j \in 1..Len(closed_positions) :
           /\ closed_positions[j].exit_time = candle.time
           /\ closed_positions[j].close_reason = "END_OF_DAY"

\* the calendar holds an FOMC event on the day of timestamp t
FomcDay(t) ==
    \E k \in 1..Len(news_events) :
        HasFOMC(news_events[k].name) /\ news_events[k].time.day = t.day

\* the first whole-day event of t's day in the calendar is an FOMC event (no
\* NFP event of that day is listed before it)
FomcLeads(t) ==
    \E k \in 1..Len(news_events) :
        /\ HasFOMC(news_events[k].name) /\ news_events[k].time.day = t.day
        /\ \A i \in 1..(k - 1) :
               ~(HasNFP(news_events[i].name) /\ news_events[i].time.day = t.day)

\* the reason tags of a news exit on an FOMC day
FomcTags ==
    { "NEWS_FOMC_DAY_" \o news_events[k].name :
        k \in { i \in 1..Len(news_events) : HasFOMC(news_events[i].name) } }

\* C20 as stated: every position closed on an FOMC day carries a reason tag
\* starting NEWS_FOMC.
C20_FomcDayExitTaggedNews ==
    \A j \in 1..Len(closed_positions) :
        FomcDay(closed_positions[j].exit_time)
            => closed_positions[j].close_reason \in FomcTags

\* C20 (amended): a position open when a bar of an FOMC day is processed is
\* force-closed on that bar, before positions are marked to it, whether or
\* not the bar touches its stop or target; the tag is DAILY_RESET when the bar
\* triggers the daily reset, else END_OF_DAY when the bar's hour is at or
\* after the end of the trading window, else NEWS_FOMC_DAY_<event name>
\* (the calendar listing no NFP event of that day before the FOMC event).
C20_FomcDayForcedExit ==
    [][ /\ ( /\ pc \in {"daily_reset", "end_of_day", "news"}
             /\ open_positions # <<>>
             /\ FomcLeads(ProcessedBar.time) )
            => IF pc = "daily_reset"
               THEN IF reset_returned' THEN AllClosedAs(ProcessedBar, "DAILY_RESET")
                    ELSE UNCHANGED account
               ELSE IF pc = "end_of_day"
               THEN IF candle.time.hour >= TRADING_END
                    THEN AllClosedAs(candle, "END_OF_DAY")
                    ELSE UNCHANGED account
               ELSE \E tag \in FomcTags : AllClosedAs(candle, tag)
        /\ (pc = "swing" /\ FomcDay(candle.time)) => open_positions = <<>>
        /\ PositionOpened => ~FomcDay(candle.time) ]_vars

\* C20 witness: a SHORT position was closed with an FOMC news tag on a bar
\* that reached neither its target nor (staying at or below the entry) its
\* stop
C20_Witness ==
    /\ pc = "swing"
    /\ FomcDay(candle.time)
    /\ \E j \in 1..Len(closed_positions) :
           /\ closed_positions[j].exit_time = candle.time
           /\ closed_positions[j].close_reason \in FomcTags
           /\ closed_positions[j].direction = "SHORT"
           /\ candle.high <= closed_positions[j].entry_price
           /\ candle.low > closed_positions[j].entry_price - TP_FIRST

\* C21: every position is opened on the bar's time, with direction equal to
\* the bias on that bar, entry price equal to the bar's close and stop equal
\* to mitigation_low under LONG and mitigation_high under SHORT; a SHORT
\* position is opened only after a bias flip since the last daily reset, so
\* none is opened while the bias never flips.
C21_EntryFollowsBias ==
    [][ PositionOpened =>
          /\ NewPosition.entry_time = candle.time
          /\ NewPosition.direction = bias
          /\ NewPosition.entry_price = candle.close
          /\ NewPosition.sl_price =
                 (IF bias = "LONG" THEN mitigation_low ELSE mitigation_high)
          /\ NewPosition.direction = "SHORT" => entries_since_flip # None ]_vars

\* C21 witness: a SHORT position has just been opened with its stop on
\* mitigation_high, above mitigation_low
C21_Witness ==
    /\ pc = "daily_reset"
    /\ open_positions # <<>>
    /\ open_positions[Len(open_positions)].entry_time = candle.time
    /\ open_positions[Len(open_positions)].direction = "SHORT"
    /\ open_positions[Len(open_positions)].sl_price = mitigation_high
    /\ mitigation_high > mitigation_low

\* every bar's high and low lie strictly above the previous bar's
CleanUptrend(d) ==
    \A k \in 2..Len(d) : d[k].high > d[k - 1].high /\ d[k].low > d[k - 1].low

\* all bars lie in the analysis-and-trading window of one day
OneSession(d) ==
    \A k \in 1..Len(d) : d[k].time.day = d[1].time.day /\ InEngineHours(d[k].time)

\* the loop has processed every row it follows
RunComplete == Len(df) = FeedBars(feed) /\ pc = "daily_reset"

\* C22: over a clean uptrend inside one day's analysis-and-trading window the
\* mitigation zone is assigned exactly once: the run ends with the zone set,
\* and once set the zone is not assigned again.
C22_OneZoneInCleanUptrend ==
    /\ []( (RunComplete /\ CleanUptrend(df) /\ OneSession(df))
             => (mitigation_high # None /\ mitigation_low # None) )
    /\ [][ (CleanUptrend(df') /\ OneSession(df') /\ mitigation_high # None)
             => UNCHANGED <<mitigation_high, mitigation_low, mitigation_candle_idx>> ]_vars

\* the event is an FOMC or an NFP release: its name carries FOMC or NFP, or
\* is the calendar's name of the NFP release
LabelledFomcOrNfp(name) ==
    name \in {"FOMC", "FOMC Meeting Minutes", "NFP", "Non-Farm Employment Change"}

\* t lies within [event time - buffer_before, event time + buffer_after]
InBuffer(t, e) ==
    /\ Minutes(e.time) - NEWS_BEFORE_MINUTES <= Minutes(t)
    /\ Minutes(t) <= Minutes(e.time) + NEWS_AFTER_MINUTES

\* C23: on every bar the news exit has run on, is_news_time(t) is a blackout
\* exactly when t's day holds an FOMC or NFP event, whatever the time of day,
\* or t lies within [event time - buffer_before, event time + buffer_after],
\* both ends included, of some event of the calendar.
C23_DayOrBufferBlackout ==
    pc = "swing" =>
        ( is_news_time(news_events, candle.time).blackout <=>
            \/ \E k \in 1..Len(news_events) :
                   /\ LabelledFomcOrNfp(news_events[k].name)
                   /\ news_events[k].time.day = candle.time.day
            \/ \E k \in 1..Len(news_events) : InBuffer(candle.time, news_events[k]) )

\* C24: with no cap (MAX_OPEN_POSITIONS = None, the default) a bar that passes
\* the entry conditions opens a position however many are already open; with
\* the cap set to N, no step of the loop leaves more than N positions open.
C24_OpenPositionsCap ==
    [][ /\ max_open_positions # None => Len(open_positions') <= max_open_positions
        /\ ( /\ pc = "entry"
             /\ max_open_positions = None
             /\ is_trading_hours(news_events, df, df_tail, cur_idx)
             /\ should_enter
             /\ EntryLotSize > 0 )
            => PositionOpened ]_vars

\* C24 witness: the cap is 2, two positions are open, and the bar just
\* processed passed every other entry condition and opened nothing
C24_Witness ==
    /\ pc = "daily_reset"
    /\ max_open_positions = 2
    /\ Len(open_positions) = 2
    /\ is_trading_hours(news_events, df, df_tail, cur_idx)
    /\ should_enter
    /\ EntryLotSize > 0
    /\ \A k \in 1..Len(open_positions) : open_positions[k].entry_time # candle.time

\* the rows of the last n rows before row i that have the colour
CounterRows(i, n, colour) ==
    { k \in Max2(0, i - n)..(i - 1) :
        IF colour = "green" THEN Bar(df, k).close > Bar(df, k).open
        ELSE Bar(df, k).close < Bar(df, k).open }

\* the greatest element of a non-empty set of row indices
Nearest(rows) == CHOOSE k \in rows : \A j \in rows : j <= k

\* the zone is the high and low of row k
ZoneIsRow(zone, k) ==
    zone.high = Bar(df, k).high /\ zone.low = Bar(df, k).low /\ zone.idx = k

\* C25: a LONG->SHORT flip at bar i sets the zone to the high and low of the
\* nearest bullish candle among the 100 rows before row i (row i excluded),
\* and to row i's own high and low if there is none; a SHORT->LONG flip does
\* the same with the nearest bearish candle.
C25_FlipZoneFromScanBeforeFlipBar ==
    [][ (pc = "bias" /\ bias' # bias) =>
          LET colour == IF bias = "LONG" THEN "green" ELSE "red"
              rows == CounterRows(cur_idx, 100, colour)
          IN  IF rows # {} THEN ZoneIsRow(Zone', Nearest(rows))
              ELSE ZoneIsRow(Zone', cur_idx) ]_vars

\* C25 witness: a flip to SHORT on a bullish-free stretch has taken the
\* bullish candle exactly 100 rows before the flipping bar, although an
\* earlier bullish candle exists
C25_Witness ==
    /\ pc = "mitigation_test"
    /\ bias_returned
    /\ bias = "SHORT"
    /\ mitigation_candle_idx = cur_idx - 100
    /\ \E k \in 0..(cur_idx - 101) : is_bullish_candle(Bar(df, k))

\* C26: when update_swing_levels confirms a new reference high under LONG
\* bias, the zone becomes the high and low of the nearest bearish candle
\* among the 100 rows ending at the reference high, and stays as it was if
\* there is none; under SHORT bias the same with a new reference low and the
\* nearest bullish candle; a call that confirms nothing for the current bias
\* (a confirmation under the opposite bias included) leaves the zone alone.
C26_ZoneOnConfirmedReference ==
    [][ pc = "swing" =>
          IF InEngineHours(candle.time) /\ bias = "LONG" /\ BreaksRefLow
          THEN LET rows == CounterRows(reference_high_idx' + 1, 100, "red")
               IN  IF rows # {} THEN ZoneIsRow(Zone', Nearest(rows))
                   ELSE Zone' = Zone
          ELSE IF InEngineHours(candle.time) /\ bias = "SHORT" /\ BreaksRefHigh
          THEN LET rows == CounterRows(reference_low_idx' + 1, 100, "green")
               IN  IF rows # {} THEN ZoneIsRow(Zone', Nearest(rows))
                   ELSE Zone' = Zone
          ELSE Zone' = Zone ]_vars

\* C26 witness: a reference high has just been confirmed under LONG bias and
\* the zone is the bearish candle 99 rows before it, the last row of the
\* window, although an earlier bearish candle exists
C26_Witness ==
    /\ pc = "bias"
    /\ bias = "LONG"
    /\ pending_swing_highs = <<>>
    /\ reference_high_idx = cur_idx - 3
    /\ mitigation_candle_idx = reference_high_idx - 99
    /\ \E k \in 0..(mitigation_candle_idx - 1) : is_bearish_candle(Bar(df, k))

\* the entries of the pending list after that the list before does not hold
Added(before, after) ==
    { k \in 1..Len(after) : \A j \in 1..Len(before) : before[j] # after[k] }

\* the pending list holds each row index at most once
OncePerIndex(pending) ==
    \A j, k \in 1..Len(pending) : pending[j][2] = pending[k][2] => j = k

\* C27: a swing at row i enters a pending list only in the call of
\* update_swing_levels on bar i + lookback, with its own price and index;
\* every swing at a row i whose bar i + lookback lies in the
\* analysis-or-trading window is added in that call (where it either stays
\* pending or is consumed by the promotion of that same call); and a pending
\* list never holds an index twice.
C27_ConfirmationLag ==
    [][ LET i == cur_idx - SWING_LOOKBACK
        IN  /\ \A k \in Added(pending_swing_highs, pending_swing_highs') :
                   /\ pc = "swing"
                   /\ is_swing_high(df, i)
                   /\ pending_swing_highs'[k] = <<Bar(df, i).high, i>>
            /\ \A k \in Added(pending_swing_lows, pending_swing_lows') :
                   /\ pc = "swing"
                   /\ is_swing_low(df, i)
                   /\ pending_swing_lows'[k] = <<Bar(df, i).low, i>>
            /\ (pc = "swing" /\ InEngineHours(candle.time) /\ is_swing_high(df, i)) =>
                   \/ \E k \in Added(pending_swing_highs, pending_swing_highs') :
                          pending_swing_highs'[k][2] = i
                   \/ /\ pending_swing_highs' = <<>>
                      /\ InitRefLow[1] # None
                      /\ candle.low < InitRefLow[1]
                      /\ reference_high' >= Bar(df, i).high
            /\ (pc = "swing" /\ InEngineHours(candle.time) /\ is_swing_low(df, i)) =>
                   \/ \E k \in Added(pending_swing_lows, pending_swing_lows') :
                          pending_swing_lows'[k][2] = i
                   \/ /\ pending_swing_lows' = <<>>
                      /\ candle.high > reference_high'
                      /\ reference_low' <= Bar(df, i).low
            /\ OncePerIndex(pending_swing_highs')
            /\ OncePerIndex(pending_swing_lows') ]_vars

\* C27 witness: update_swing_levels has just added the swing high lookback
\* rows back to a pending list that already held an earlier swing high
C27_Witness ==
    /\ pc = "bias"
    /\ Len(pending_swing_highs) >= 2
    /\ pending_swing_highs[Len(pending_swing_highs)][2] = cur_idx - SWING_LOOKBACK

\* the true range of row k: the largest of high - low and the distances of
\* the high and the low from the previous close (high - low for the first row)
RowTrueRange(k) == IF k = 0 THEN Bar(df, 0).high - Bar(df, 0).low ELSE TrueRange(df, k)

\* C28: on a bar i with 20 rows before it, the post-spike filter is on
\* exactly when one of the 4 rows before bar i has a true range above twice
\* the average true range of the 20 rows before bar i.
C28_SpikeFilterOnTrueRange ==
    (pc = "entry" /\ cur_idx >= VOL_WINDOW) =>
        LET tr == [k \in (cur_idx - VOL_WINDOW)..(cur_idx - 1) |-> RowTrueRange(k)]
            total == SumTo(tr, cur_idx - VOL_WINDOW, cur_idx - 1)
        IN  is_high_volatility_recent(df, df_tail, cur_idx)
                <=> \E k \in (cur_idx - VOL_LOOKBACK)..(cur_idx - 1) :
                        tr[k] * VOL_WINDOW > 2 * total

\* the rows 0..k of the frame
RowsTo(k) == SubSeq(df, 1, k + 1)

\* C29: the entry step of a bar, which evaluates is_trading_hours, changes no
\* field of the engine whether the gating passes or fails; on a bar that fails
\* it the account is unchanged too, and on a bar that passes it the only
\* change is the position opened.  The gating of a later bar is computed from
\* the rows, the calendar and that unchanged state alone.
C29_GatingLeavesNoTrace ==
    [][ pc = "entry" =>
          /\ UNCHANGED <<engine, last_analysis_day, balance, closed_positions,
                         news_events, df, df_tail>>
          /\ ~is_trading_hours(news_events, df, df_tail, cur_idx) => UNCHANGED account
          /\ is_trading_hours(news_events, df, df_tail, cur_idx) =>
                 \/ UNCHANGED account
                 \/ /\ PositionOpened
                    /\ SubSeq(open_positions', 1, Len(open_positions)) = open_positions
      ]_vars

\* C29 witness: a position has just been opened on a bar that passed the
\* gating, after an earlier bar of the same trading window, with the zone
\* already set, failed it
C29_Witness ==
    /\ pc = "daily_reset"
    /\ open_positions # <<>>
    /\ open_positions[Len(open_positions)].entry_time = candle.time
    /\ is_trading_hours(news_events, df, df_tail, cur_idx)
    /\ \E k \in 0..(cur_idx - 1) :
           /\ Bar(df, k).time.day = candle.time.day
           /\ TRADING_START <= Bar(df, k).time.hour /\ Bar(df, k).time.hour < TRADING_END
           /\ mitigation_candle_idx < k
           /\ ~is_trading_hours(news_events, RowsTo(k), df_tail, k)

\* C30: on a bar with too little history the indicators return their
\* defaults: calculate_adx returns 50 on the bars 0..period (fewer than
\* period + 1 rows before the bar) and calculate_atr returns 0.0003 on the
\* bars 0..period-1, so is_choppy_market is false on the first period + 1
\* bars of a file.
C30_IndicatorDefaults ==
    pc = "entry" =>
        /\ cur_idx < ADX_PERIOD + 1 =>
               /\ calculate_adx(df, cur_idx) = 50
               /\ ~is_choppy_market(df, cur_idx)
        /\ cur_idx < ADX_PERIOD =>
               calculate_atr(df, cur_idx) = 3 * ADX_PERIOD

\* C30 witness: a position has just been opened on bar 14, the last of the
\* first period + 1 bars, a bar that is not flat
C30_Witness ==
    /\ pc = "daily_reset"
    /\ cur_idx = ADX_PERIOD
    /\ open_positions # <<>>
    /\ open_positions[Len(open_positions)].entry_time = candle.time
    /\ candle.high > candle.low
    /\ calculate_adx(df, cur_idx) = 50

\* C31: with the news filter enabled, once the news exit has run on a bar
\* whose timestamp is inside a blackout no position is open, through the end
\* of the bar: the positions open at its start are force-closed and the
\* entry step opens none.
C31_NoPositionAfterBlackoutBar ==
    ( /\ ENABLE_NEWS_FILTER
      /\ df # <<>>
      /\ pc \in {"swing", "bias", "mitigation_test", "positions", "entry", "daily_reset"}
      /\ is_news_time(news_events, candle.time).blackout )
        => open_positions = <<>>

\* C31 witness: the loop has finished a blackout bar inside the trading hours
\* on which the zone was set and the lot size positive, and on which a
\* position was closed with a news tag
C31_Witness ==
    /\ pc = "daily_reset"
    /\ df # <<>>
    /\ is_news_time(news_events, candle.time).blackout
    /\ TRADING_START <= candle.time.hour /\ candle.time.hour < TRADING_END
    /\ should_enter
    /\ EntryLotSize > 0
    /\ \E j \in 1..Len(closed_positions) :
           /\ closed_positions[j].exit_time = candle.time
           /\ closed_positions[j].close_reason
                  = "NEWS_" \o is_news_time(news_events, candle.time).event

\* the bar's hour is outside [analysis start hour, trading end hour)
OutsideWindow(t) == ~(ANALYSIS_START <= t.hour /\ t.hour < TRADING_END)

\* C32: on a bar whose hour is outside [analysis start hour, trading end
\* hour), update_swing_levels and check_bias_change change no field of the
\* engine, and check_bias_change returns False.
C32_NoEngineChangeOutsideWindow ==
    [][ (pc \in {"swing", "bias"} /\ OutsideWindow(candle.time)) =>
          /\ UNCHANGED engine
          /\ pc = "bias" => bias_returned' = FALSE ]_vars

\* C32 witness: check_bias_change has returned False on a bar outside the
\* window that closed beyond the boundary of the zone
C32_Witness ==
    /\ pc = "mitigation_test"
    /\ OutsideWindow(candle.time)
    /\ mitigation_high # None
    /\ \/ bias = "LONG" /\ candle.close < mitigation_low
       \/ bias = "SHORT" /\ candle.close > mitigation_high
    /\ ~bias_returned

\* C33: every position is opened with its stop on the losing side of its
\* entry price: at or below the entry for a LONG position, at or above it for
\* a SHORT position.
C33_StopOnLosingSide ==
    [][ PositionOpened =>
          /\ NewPosition.direction = "LONG" => NewPosition.sl_price <= NewPosition.entry_price
          /\ NewPosition.direction = "SHORT" => NewPosition.sl_price >= NewPosition.entry_price
      ]_vars


C35_BiasAndZoneShape ==
    /\ [](/\ bias \in {"LONG", "SHORT"}
          /\ (mitigation_high = None) <=> (mitigation_low = None)
          /\ bias = "SHORT" => mitigation_high # None)
    /\ [][ (mitigation_high = None /\ mitigation_high' # None)
             => (bias = "LONG" /\ bias' = "LONG") ]_vars

\* a zone of the second day of a run is set, on a candle of that day, after
\* the reset of that day, under LONG bias
C35_Witness ==
    /\ \E k \in 1..Len(df) : df[k].time.day # df[Len(df)].time.day
    /\ last_analysis_day = df[Len(df)].time.day
    /\ mitigation_high # None
    /\ mitigation_candle_idx # None
    /\ df[mitigation_candle_idx + 1].time.day = last_analysis_day
    /\ bias = "LONG"


\* the day and the row of the last daily reset over the first n rows of d:
\* check_daily_reset resets on a row of the analysis period whose day differs
\* from the day of the reset before it
RECURSIVE LastResetAfter(_, _)
LastResetAfter(d, n) ==
    IF n = 0 THEN [day |-> None, idx |-> None]
    ELSE LET prev == LastResetAfter(d, n - 1)
             t == d[n].time
         IN  IF prev.day # t.day /\ is_analysis_period(t)
             THEN [day |-> t.day, idx |-> n - 1]
             ELSE prev

\* the row indices held in the engine state
HeldIndices ==
    { pending_swing_highs[k][2] : k \in 1..Len(pending_swing_highs) }
      \cup { pending_swing_lows[k][2] : k \in 1..Len(pending_swing_lows) }
      \cup ({reference_high_idx, reference_low_idx, mitigation_candle_idx} \ {None})

\* C36: once a daily reset has happened on row r, every row index held in the
\* engine state (pending swings, reference_high_idx, reference_low_idx,
\* mitigation_candle_idx) is at least r, until the next reset.
C36_IndicesWithinDay ==
    LET r == LastResetAfter(df, Len(df)).idx
    IN  r # None => \A i \in HeldIndices : i >= r


====
